---------------------------- MODULE Spec2Model ----------------------------
(***************************************************************************)
(* The Chat component of YewChat (src/src/components/chat.rs): the         *)
(* registration done by Chat::create, the ingestion of inbound frames by   *)
(* Chat::update (Msg::HandleMsg) and the composition of outbound messages  *)
(* by Chat::update (Msg::SubmitMessage), with the serde wire codec of      *)
(* WebSocketMessage / MsgTypes / MessageData.                              *)
(*                                                                         *)
(* Texts.  A Rust String is modelled by what a JSON parser sees in it:     *)
(*   Raw(s)  a text that is not a JSON document (s names it; Raw("") is    *)
(*           the empty string),                                            *)
(*   Doc(j)  a text that is the serialisation of the JSON value j.         *)
(* JSON values (serde_json::Value) are JNull, JNum(n), JStr(text),         *)
(* JArr(sequence) and JObj(function from field names to JSON values).      *)
(* A JSON object with a repeated key is not representable.                 *)
(***************************************************************************)
EXTENDS Integers, Sequences, FiniteSets, TLC

VARIABLES
    context,     \* the ambient User context: None or Some(username)
    component,   \* "none" before Chat::create, "created" after it, "panicked"
    users,       \* Chat.users    : Vec<UserProfile>
    messages,    \* Chat.messages : Vec<MessageData>
    chat_input,  \* the <input> behind Chat.chat_input: None until rendered, then Some(value)
    tx,          \* the channel behind Chat.wss.tx: [queue, closed]
    log,         \* the records written through log::debug! / log::error!
    attempts,    \* every try_send made so far: [text, ok]
    last,        \* the last Msg dispatched to update: [msg, now, before, ret, logs,
                 \* tried], where before is the component as update found it, ret
                 \* what it returned, logs what it logged and tried the sends it made
    nEvents,     \* the number of Msgs dispatched to update
    wire,        \* the texts the websocket writer has taken off the channel, in order
    twin,        \* a second session fed the same events (PairSpec only)
    codec        \* an envelope put through the wire codec (CodecSpec only)

vars == <<context, component, users, messages, chat_input, tx, log, attempts,
          last, nEvents, wire, twin, codec>>

-----------------------------------------------------------------------------
(* Bounds of the model *)

MaxEvents == 3
ChanCap == 1

-----------------------------------------------------------------------------
(* Option, Result, texts and JSON values *)

None == [none |-> TRUE]
Some(x) == [some |-> x]
IsSome(o) == "some" \in DOMAIN o

Ok(x) == [ok |-> x]
Err(e) == [err |-> e]
IsOk(r) == "ok" \in DOMAIN r

Raw(s) == [raw |-> s]
Doc(j) == [doc |-> j]

JNull == [null |-> TRUE]
JNum(n) == [num |-> n]
JStr(t) == [str |-> t]
JArr(a) == [arr |-> a]
JObj(f) == [obj |-> f]

IsNull(j) == "null" \in DOMAIN j
IsStr(j) == "str" \in DOMAIN j
IsArr(j) == "arr" \in DOMAIN j
IsObj(j) == "obj" \in DOMAIN j

\* The value of field k of a JSON object, JNull when the object has no such
\* field (what serde's Option<T> fields make of a missing field).
Field(j, k) == IF k \in DOMAIN j.obj THEN j.obj[k] ELSE JNull

-----------------------------------------------------------------------------
(* serde_json::from_str / to_string on texts *)

\* serde_json::from_str first parses the text as JSON: a syntax error
\* unless the text is a JSON document.
ParseJson(t) == IF "doc" \in DOMAIN t THEN Ok(t.doc) ELSE Err("syntax")

\* serde_json::to_string of a JSON value.
ToJsonText(j) == Doc(j)


-----------------------------------------------------------------------------
(* The wire codec: #[derive(Serialize, Deserialize)] of MsgTypes,           *)
(* WebSocketMessage and MessageData                                          *)

\* #[serde(rename_all = "lowercase")] enum MsgTypes { Users, Register, Message }
MsgTypes == [Users |-> "users", Register |-> "register", Message |-> "message"]

\* A unit variant is read from a JSON string holding its tag, or from a
\* one-key object {"tag": null}; any other tag is an unknown variant.
VariantOfTag(t) == CHOOSE v \in DOMAIN MsgTypes : Raw(MsgTypes[v]) = t
IsTag(t) == \E v \in DOMAIN MsgTypes : Raw(MsgTypes[v]) = t
\* Mutant of DeserializeMsgTypes: a tag that names no variant is read as a
\* catch-all variant instead of being refused.
DeserializeMsgTypes_CatchAll(j) ==
    IF IsStr(j)
    THEN IF IsTag(j.str) THEN Ok(VariantOfTag(j.str)) ELSE Ok("Other")
    ELSE Err("invalid type")
DeserializeMsgTypes(j) ==
    IF IsStr(j)
    THEN IF IsTag(j.str) THEN Ok(VariantOfTag(j.str)) ELSE Err("unknown variant")
    ELSE IF IsObj(j)
    THEN IF \E v \in DOMAIN MsgTypes :
               DOMAIN j.obj = {MsgTypes[v]} /\ IsNull(j.obj[MsgTypes[v]])
         THEN Ok(CHOOSE v \in DOMAIN MsgTypes : DOMAIN j.obj = {MsgTypes[v]})
         ELSE Err("invalid enum")
    ELSE Err("invalid type")

\* String
DeserializeString(j) == IF IsStr(j) THEN Ok(j.str) ELSE Err("invalid type")

\* Option<String>: null (or a missing field) is None
DeserializeOptString(j) ==
    IF IsNull(j) THEN Ok(None)
    ELSE IF IsStr(j) THEN Ok(Some(j.str))
    ELSE Err("invalid type")

\* Option<Vec<String>>: null (or a missing field) is None
DeserializeOptVecString(j) ==
    IF IsNull(j) THEN Ok(None)
    ELSE IF IsArr(j) /\ \A i \in DOMAIN j.arr : IsStr(j.arr[i])
    THEN Ok(Some([i \in DOMAIN j.arr |-> j.arr[i].str]))
    ELSE Err("invalid type")

\* #[serde(rename_all = "camelCase")] struct WebSocketMessage
\*   { message_type: MsgTypes, data_array: Option<Vec<String>>, data: Option<String> }
\* read from an object by field name (unknown fields ignored, message_type
\* required) or from an array of exactly its three fields in order.
WebSocketMessageOf(mt, da, d) ==
    IF IsOk(mt) /\ IsOk(da) /\ IsOk(d)
    THEN Ok([message_type |-> mt.ok, data_array |-> da.ok, data |-> d.ok])
    ELSE Err("invalid field")
DeserializeWebSocketMessage(j) ==
    IF IsObj(j)
    THEN IF "messageType" \notin DOMAIN j.obj
         THEN Err("missing field messageType")
         ELSE WebSocketMessageOf(DeserializeMsgTypes(j.obj["messageType"]),
                                 DeserializeOptVecString(Field(j, "dataArray")),
                                 DeserializeOptString(Field(j, "data")))
    ELSE IF IsArr(j)
    THEN IF Len(j.arr) # 3
         THEN Err("invalid length")
         ELSE WebSocketMessageOf(DeserializeMsgTypes(j.arr[1]),
                                 DeserializeOptVecString(j.arr[2]),
                                 DeserializeOptString(j.arr[3]))
    ELSE Err("invalid type")

SerializeOptString(o) == IF IsSome(o) THEN JStr(o.some) ELSE JNull
SerializeOptVecString(o) ==
    IF IsSome(o) THEN JArr([i \in DOMAIN o.some |-> JStr(o.some[i])]) ELSE JNull
\* Mutant of SerializeWebSocketMessage: the fields keep their Rust names.
SerializeWebSocketMessage_SnakeCase(m) ==
    JObj([message_type |-> JStr(Raw(MsgTypes[m.message_type])),
          data_array   |-> SerializeOptVecString(m.data_array),
          data         |-> SerializeOptString(m.data)])

SerializeWebSocketMessage(m) ==
    JObj([messageType |-> JStr(Raw(MsgTypes[m.message_type])),
          dataArray   |-> SerializeOptVecString(m.data_array),
          data        |-> SerializeOptString(m.data)])

\* struct MessageData { from: String, message: String,
\*                      #[serde(default)] timestamp: Option<String> }
\* read from an object (from and message required) or from an array of its
\* fields in order, where the defaulted timestamp may be left out.
MessageDataOf(f, m, t) ==
    IF IsOk(f) /\ IsOk(m) /\ IsOk(t)
    THEN Ok([from |-> f.ok, message |-> m.ok, timestamp |-> t.ok])
    ELSE Err("invalid field")
DeserializeMessageData(j) ==
    IF IsObj(j)
    THEN IF ~ ({"from", "message"} \subseteq DOMAIN j.obj)
         THEN Err("missing field")
         ELSE MessageDataOf(DeserializeString(j.obj["from"]),
                            DeserializeString(j.obj["message"]),
                            DeserializeOptString(Field(j, "timestamp")))
    ELSE IF IsArr(j)
    THEN IF Len(j.arr) \notin {2, 3}
         THEN Err("invalid length")
         ELSE MessageDataOf(DeserializeString(j.arr[1]),
                            DeserializeString(j.arr[2]),
                            IF Len(j.arr) = 3 THEN DeserializeOptString(j.arr[3])
                                              ELSE Ok(None))
    ELSE Err("invalid type")

\* serde_json::from_str::<WebSocketMessage>(&s)
from_str_WebSocketMessage(s) ==
    IF IsOk(ParseJson(s)) THEN DeserializeWebSocketMessage(ParseJson(s).ok)
                          ELSE Err("syntax")

\* serde_json::from_str::<MessageData>(&data)
from_str_MessageData(data) ==
    IF IsOk(ParseJson(data)) THEN DeserializeMessageData(ParseJson(data).ok)
                             ELSE Err("syntax")

\* serde_json::to_string(&message).unwrap()
to_string_WebSocketMessage(m) == ToJsonText(SerializeWebSocketMessage(m))

-----------------------------------------------------------------------------
(* The transport channel behind WebsocketService.tx (services/websocket.rs  *)
(* is not part of the sources at hand): a bounded queue of texts that can   *)
(* be closed; try_send never blocks and fails when closed or full.          *)

\* WebsocketService::new(): a fresh channel, already closed when the
\* connection could not be kept.
NewChannel(closed) == [queue |-> <<>>, closed |-> closed]

\* tx.clone().try_send(text)
try_send(chan, text) ==
    IF chan.closed THEN [result |-> Err("closed"), chan |-> chan]
    ELSE IF Len(chan.queue) >= ChanCap THEN [result |-> Err("full"), chan |-> chan]
    ELSE [result |-> Ok(TRUE), chan |-> [chan EXCEPT !.queue = Append(@, text)]]

-----------------------------------------------------------------------------
(* Chat::create and Chat::update as functions of the component, the channel *)
(* and what they read.  Each yields the new component (self), the new       *)
(* channel (tx), the value returned to the renderer (ret), the log records  *)
(* written (logs) and the try_send calls made (tried).                      *)

Debug(t) == [level |-> "debug", text |-> t]
Error(t) == [level |-> "error", text |-> t]

Outcome(self, chan, ret, logs, tried) ==
    [self |-> self, tx |-> chan, ret |-> ret, logs |-> logs, tried |-> tried]

Tried(text, r) == [text |-> text, ok |-> IsOk(r.result)]

\* format!("https://avatars.dicebear.com/api/adventurer-neutral/{}.svg", u)
AvatarUrl(u) ==
    [format |-> <<"https://avatars.dicebear.com/api/adventurer-neutral/", u, ".svg">>]

\* UserProfile { name: u.into(), avatar: format!(...) }
UserProfile(u) == [name |-> u, avatar |-> AvatarUrl(u)]

\* Option::unwrap_or_default on Option<Vec<String>>
unwrap_or_default(o) == IF IsSome(o) THEN o.some ELSE <<>>

\* String::is_empty
is_empty(t) == t = Raw("")

\* The registration envelope built by create.
RegisterMessage(username) ==
    [message_type |-> "Register", data |-> Some(username), data_array |-> None]

\* Mutant of create: a registration whose send failed is sent again.
create_Retry(ctx, chan) ==
    IF ~ IsSome(ctx) THEN [panic |-> "context to be set"]
    ELSE LET text == to_string_WebSocketMessage(RegisterMessage(ctx.some))
             r    == try_send(chan, text)
             r2   == try_send(r.chan, text)
         IN  IF IsOk(r.result)
             THEN Outcome([users |-> <<>>, messages |-> <<>>, chat_input |-> None],
                          r.chan, FALSE, <<Debug("message sent successfully")>>,
                          <<Tried(text, r)>>)
             ELSE Outcome([users |-> <<>>, messages |-> <<>>, chat_input |-> None],
                          r2.chan, FALSE, <<>>, <<Tried(text, r), Tried(text, r2)>>)

\* Chat::create, given the User context and the channel of the new
\* WebsocketService.  The context must be set: expect() panics otherwise.
create(ctx, chan) ==
    IF ~ IsSome(ctx) THEN [panic |-> "context to be set"]
    ELSE LET text == to_string_WebSocketMessage(RegisterMessage(ctx.some))
             r    == try_send(chan, text)
         IN  Outcome([users |-> <<>>, messages |-> <<>>, chat_input |-> None],
                     r.chan, FALSE,
                     IF IsOk(r.result) THEN <<Debug("message sent successfully")>>
                                       ELSE <<>>,
                     <<Tried(text, r)>>)

\* Mutant of UsersArm: an envelope without a list leaves the roster alone.
UsersArm_KeepOnAbsent(self, chan, msg) ==
    IF IsSome(msg.data_array)
    THEN Outcome([self EXCEPT !.users = [i \in DOMAIN msg.data_array.some |->
                                            UserProfile(msg.data_array.some[i])]],
                 chan, TRUE, <<>>, <<>>)
    ELSE Outcome(self, chan, FALSE, <<>>, <<>>)

\* Mutant of UsersArm: a text the envelope carries is decoded and appended to
\* the messages as well.
UsersArm_AlsoText(self, chan, msg) ==
    LET users_from_message == unwrap_or_default(msg.data_array)
        roster == [i \in DOMAIN users_from_message |->
                      UserProfile(users_from_message[i])]
    IN  IF IsSome(msg.data) /\ IsOk(from_str_MessageData(msg.data.some))
        THEN Outcome([self EXCEPT !.users = roster,
                                  !.messages = Append(@,
                                      from_str_MessageData(msg.data.some).ok)],
                     chan, TRUE, <<>>, <<>>)
        ELSE Outcome([self EXCEPT !.users = roster], chan, TRUE, <<>>, <<>>)

\* Mutant of UsersArm: the new profiles are added to the roster instead of
\* replacing it.
UsersArm_Extend(self, chan, msg) ==
    LET users_from_message == unwrap_or_default(msg.data_array)
    IN  Outcome([self EXCEPT !.users = @ \o [i \in DOMAIN users_from_message |->
                                               UserProfile(users_from_message[i])]],
                chan, TRUE, <<>>, <<>>)

\* MsgTypes::Users arm of update
UsersArm(self, chan, msg) ==
    LET users_from_message == unwrap_or_default(msg.data_array)
    IN  Outcome([self EXCEPT !.users = [i \in DOMAIN users_from_message |->
                                           UserProfile(users_from_message[i])]],
                chan, TRUE, <<>>, <<>>)

\* Mutant of MessageArm: the entry is appended without telling the renderer.
MessageArm_NoNotify(self, chan, msg) ==
    IF IsSome(msg.data)
    THEN LET r == from_str_MessageData(msg.data.some)
         IN  IF IsOk(r)
             THEN Outcome([self EXCEPT !.messages = Append(@, r.ok)], chan, FALSE,
                          <<Debug("Received message")>>, <<>>)
             ELSE Outcome(self, chan, FALSE,
                          <<Error("Error parsing message data")>>, <<>>)
    ELSE Outcome(self, chan, FALSE, <<>>, <<>>)

\* Mutant of MessageArm: an envelope without a text is reported like one whose
\* text does not decode.
MessageArm_ErrorOnAbsent(self, chan, msg) ==
    IF IsSome(msg.data)
    THEN LET r == from_str_MessageData(msg.data.some)
         IN  IF IsOk(r)
             THEN Outcome([self EXCEPT !.messages = Append(@, r.ok)], chan, TRUE,
                          <<Debug("Received message")>>, <<>>)
             ELSE Outcome(self, chan, FALSE,
                          <<Error("Error parsing message data")>>, <<>>)
    ELSE Outcome(self, chan, FALSE, <<Error("Error parsing message data")>>, <<>>)

\* Mutant of MessageArm: the new entry is put at the head of the log.
MessageArm_PushFront(self, chan, msg) ==
    IF IsSome(msg.data)
    THEN LET r == from_str_MessageData(msg.data.some)
         IN  IF IsOk(r)
             THEN Outcome([self EXCEPT !.messages = <<r.ok>> \o @], chan, TRUE,
                          <<Debug("Received message")>>, <<>>)
             ELSE Outcome(self, chan, FALSE,
                          <<Error("Error parsing message data")>>, <<>>)
    ELSE Outcome(self, chan, FALSE, <<>>, <<>>)

\* Mutant of MessageArm: a text that does not decode is logged and then shown
\* as a message of its own.
MessageArm_KeepRawText(self, chan, msg) ==
    IF IsSome(msg.data)
    THEN LET r == from_str_MessageData(msg.data.some)
         IN  IF IsOk(r)
             THEN Outcome([self EXCEPT !.messages = Append(@, r.ok)], chan, TRUE,
                          <<Debug("Received message")>>, <<>>)
             ELSE Outcome([self EXCEPT !.messages =
                              Append(@, [from |-> Raw(""), message |-> msg.data.some,
                                         timestamp |-> None])],
                          chan, TRUE,
                          <<Error("Error parsing message data")>>, <<>>)
    ELSE Outcome(self, chan, FALSE, <<>>, <<>>)

\* Mutant of MessageArm: the sender of a decoded message is added to the roster.
MessageArm_AddsSender(self, chan, msg) ==
    IF IsSome(msg.data)
    THEN LET r == from_str_MessageData(msg.data.some)
         IN  IF IsOk(r)
             THEN Outcome([self EXCEPT !.messages = Append(@, r.ok),
                                       !.users = Append(@, UserProfile(r.ok.from))],
                          chan, TRUE, <<Debug("Received message")>>, <<>>)
             ELSE Outcome(self, chan, FALSE,
                          <<Error("Error parsing message data")>>, <<>>)
    ELSE Outcome(self, chan, FALSE, <<>>, <<>>)

\* MsgTypes::Message arm of update
MessageArm(self, chan, msg) ==
    IF IsSome(msg.data)
    THEN LET r == from_str_MessageData(msg.data.some)
         IN  IF IsOk(r)
             THEN Outcome([self EXCEPT !.messages = Append(@, r.ok)], chan, TRUE,
                          <<Debug("Received message")>>, <<>>)
             ELSE Outcome(self, chan, FALSE,
                          <<Error("Error parsing message data")>>, <<>>)
    ELSE Outcome(self, chan, FALSE, <<>>, <<>>)

\* Mutant of HandleMsg: an envelope of a kind update does not handle is
\* reported as an error.
HandleMsg_EchoIsError(self, chan, s) ==
    LET r == from_str_WebSocketMessage(s)
    IN  IF IsOk(r)
        THEN CASE r.ok.message_type = "Users"   -> UsersArm(self, chan, r.ok)
               [] r.ok.message_type = "Message" -> MessageArm(self, chan, r.ok)
               [] OTHER                         ->
                    Outcome(self, chan, FALSE,
                            <<Error("Error parsing websocket message")>>, <<>>)
        ELSE Outcome(self, chan, FALSE,
                     <<Error("Error parsing websocket message")>>, <<>>)

\* Msg::HandleMsg(s) arm of update
HandleMsg(self, chan, s) ==
    LET r == from_str_WebSocketMessage(s)
    IN  IF IsOk(r)
        THEN CASE r.ok.message_type = "Users"   -> UsersArm(self, chan, r.ok)
               [] r.ok.message_type = "Message" -> MessageArm(self, chan, r.ok)
               [] OTHER                         -> Outcome(self, chan, FALSE, <<>>, <<>>)
        ELSE Outcome(self, chan, FALSE,
                     <<Error("Error parsing websocket message")>>, <<>>)

\* Mutant of ComposedPayload: the payload also carries a from field.
ComposedPayload_WithFrom(message_content, current_time) ==
    JObj([from |-> JStr(Raw("")), message |-> JStr(message_content),
          timestamp |-> JStr(current_time)])

\* serde_json::json!({ "message": message_content, "timestamp": current_time })
ComposedPayload(message_content, current_time) ==
    JObj([message |-> JStr(message_content), timestamp |-> JStr(current_time)])

\* The envelope built by the SubmitMessage arm.
ComposedMessage(message_content, current_time) ==
    [message_type |-> "Message",
     data |-> Some(ToJsonText(ComposedPayload(message_content, current_time))),
     data_array |-> None]

\* Mutant of SubmitMessage: the composed message is shown at once in the
\* sender's own log.
SubmitMessage_LocalEcho(self, chan, now) ==
    IF IsSome(self.chat_input)
    THEN LET message_content == self.chat_input.some
         IN  IF ~ is_empty(message_content)
             THEN LET text == to_string_WebSocketMessage(
                                  ComposedMessage(message_content, now))
                      r    == try_send(chan, text)
                  IN  Outcome([self EXCEPT !.chat_input = Some(Raw("")),
                                           !.messages = Append(@,
                                               [from |-> Raw(""),
                                                message |-> message_content,
                                                timestamp |-> Some(now)])],
                              r.chan, TRUE,
                              IF IsOk(r.result) THEN <<>>
                              ELSE <<Error("Error sending to channel")>>,
                              <<Tried(text, r)>>)
             ELSE Outcome(self, chan, FALSE, <<>>, <<>>)
    ELSE Outcome(self, chan, FALSE, <<>>, <<>>)

\* Mutant of SubmitMessage: the input is cleared only when the send succeeded.
SubmitMessage_ClearOnSuccess(self, chan, now) ==
    IF IsSome(self.chat_input)
    THEN LET message_content == self.chat_input.some
         IN  IF ~ is_empty(message_content)
             THEN LET text == to_string_WebSocketMessage(
                                  ComposedMessage(message_content, now))
                      r    == try_send(chan, text)
                  IN  IF IsOk(r.result)
                      THEN Outcome([self EXCEPT !.chat_input = Some(Raw(""))],
                                   r.chan, FALSE, <<>>, <<Tried(text, r)>>)
                      ELSE Outcome(self, r.chan, FALSE,
                                   <<Error("Error sending to channel")>>,
                                   <<Tried(text, r)>>)
             ELSE Outcome(self, chan, FALSE, <<>>, <<>>)
    ELSE Outcome(self, chan, FALSE, <<>>, <<>>)

\* Mutant of SubmitMessage: nothing is composed while the channel is closed.
SubmitMessage_SkipWhenClosed(self, chan, now) ==
    IF IsSome(self.chat_input) /\ ~ chan.closed
    THEN LET message_content == self.chat_input.some
         IN  IF ~ is_empty(message_content)
             THEN LET text == to_string_WebSocketMessage(
                                  ComposedMessage(message_content, now))
                      r    == try_send(chan, text)
                  IN  Outcome([self EXCEPT !.chat_input = Some(Raw(""))],
                              r.chan, FALSE,
                              IF IsOk(r.result) THEN <<>>
                              ELSE <<Error("Error sending to channel")>>,
                              <<Tried(text, r)>>)
             ELSE Outcome(self, chan, FALSE, <<>>, <<>>)
    ELSE Outcome(self, chan, FALSE, <<>>, <<>>)

\* Mutant of SubmitMessage: an envelope the channel had no room for is kept
\* in line behind the queued ones.
SubmitMessage_Requeue(self, chan, now) ==
    IF IsSome(self.chat_input)
    THEN LET message_content == self.chat_input.some
         IN  IF ~ is_empty(message_content)
             THEN LET text == to_string_WebSocketMessage(
                                  ComposedMessage(message_content, now))
                      r    == try_send(chan, text)
                  IN  Outcome([self EXCEPT !.chat_input = Some(Raw(""))],
                              IF IsOk(r.result) \/ chan.closed THEN r.chan
                              ELSE [chan EXCEPT !.queue = Append(@, text)],
                              FALSE,
                              IF IsOk(r.result) THEN <<>>
                              ELSE <<Error("Error sending to channel")>>,
                              <<Tried(text, r)>>)
             ELSE Outcome(self, chan, FALSE, <<>>, <<>>)
    ELSE Outcome(self, chan, FALSE, <<>>, <<>>)

\* Msg::SubmitMessage arm of update; now is what
\* Date::new_0().to_locale_time_string("id-ID") yields.
SubmitMessage(self, chan, now) ==
    IF IsSome(self.chat_input)
    THEN LET message_content == self.chat_input.some
         IN  IF ~ is_empty(message_content)
             THEN LET text == to_string_WebSocketMessage(
                                  ComposedMessage(message_content, now))
                      r    == try_send(chan, text)
                  IN  Outcome([self EXCEPT !.chat_input = Some(Raw(""))],
                              r.chan, FALSE,
                              IF IsOk(r.result) THEN <<>>
                              ELSE <<Error("Error sending to channel")>>,
                              <<Tried(text, r)>>)
             ELSE Outcome(self, chan, FALSE, <<>>, <<>>)
    ELSE Outcome(self, chan, FALSE, <<>>, <<>>)

\* enum Msg { HandleMsg(String), SubmitMessage }
MsgHandleMsg(s) == [type |-> "HandleMsg", s |-> s]
MsgSubmitMessage == [type |-> "SubmitMessage"]

\* Chat::update
update(self, chan, msg, now) ==
    IF msg.type = "HandleMsg" THEN HandleMsg(self, chan, msg.s)
                              ELSE SubmitMessage(self, chan, now)

-----------------------------------------------------------------------------
(* The inputs the environment supplies *)

Str(s) == JStr(Raw(s))

Alice == Raw("alice")
Bob == Raw("bob")

\* The User context at activation: set, or missing.
Contexts == {None, Some(Alice)}

\* What the user may have typed into the input.
Buffers == {Raw(""), Raw(" "), Raw("hello")}

\* What to_locale_time_string("id-ID") may yield.
Times == {Raw("10.00.00")}

\* Nested payloads carried in "data".
M1Text == Doc(JObj([from |-> Str("alice"), message |-> Str("hi"),
                    timestamp |-> Str("10:00")]))
M2Text == Doc(JObj([from |-> Str("bob"), message |-> Str("yo")]))
NoFromText == Doc(JObj([message |-> Str("hi")]))

\* Inbound frames: well-formed envelopes of each kind, envelopes that also
\* carry the field their kind does not use (UsersWithText, whose list repeats
\* a name, and MessageM2), malformed or absent nested payloads, and frames
\* that are no envelope at all.
UsersAB == Doc(JObj([messageType |-> Str("users"),
                     dataArray |-> JArr(<<JStr(Alice), JStr(Bob)>>)]))
UsersAbsent == Doc(JObj([messageType |-> Str("users")]))
UsersNull == Doc(JObj([messageType |-> Str("users"), dataArray |-> JNull,
                       data |-> JNull]))
UsersWithText == Doc(JObj([messageType |-> Str("users"),
                           dataArray |-> JArr(<<JStr(Bob), JStr(Bob)>>),
                           data |-> JStr(M1Text)]))
MessageM1 == Doc(JObj([messageType |-> Str("message"), data |-> JStr(M1Text)]))
MessageM2 == Doc(JObj([messageType |-> Str("message"),
                       dataArray |-> JArr(<<JStr(Alice)>>), data |-> JStr(M2Text)]))
MessageNotJson == Doc(JObj([messageType |-> Str("message"), data |-> Str("not-json")]))
MessageNoFrom == Doc(JObj([messageType |-> Str("message"), data |-> JStr(NoFromText)]))
MessageNoText == Doc(JObj([messageType |-> Str("message"), data |-> JNull]))
MessageNoData == Doc(JObj([messageType |-> Str("message")]))
RegisterEcho == Doc(JObj([messageType |-> Str("register"), data |-> JStr(Alice)]))
NotJson == Raw("garbage")
NoMessageType == Doc(JObj([data |-> Str("x")]))
UnknownKind == Doc(JObj([messageType |-> Str("ping"), data |-> JNull]))

Frames == {UsersAB, UsersAbsent, UsersNull, UsersWithText,
           MessageM1, MessageM2, MessageNotJson, MessageNoFrom, MessageNoText,
           MessageNoData, RegisterEcho, NotJson, NoMessageType, UnknownKind}

-----------------------------------------------------------------------------
(* The state machine *)

Self == [users |-> users, messages |-> messages, chat_input |-> chat_input]

NoMsg == [msg |-> [type |-> "none"]]

\* Before Chat::create there is no component and no channel: the component's
\* fields hold the values create will give them and tx is not read.
Init ==
    /\ context \in Contexts
    /\ component = "none"
    /\ users = <<>>
    /\ messages = <<>>
    /\ chat_input = None
    /\ tx = NewChannel(FALSE)
    /\ log = <<>>
    /\ attempts = <<>>
    /\ last = NoMsg
    /\ nEvents = 0
    /\ wire = <<>>
    /\ twin = None
    /\ codec = None

\* The effect of a handler's outcome o on the component, the channel and the
\* histories.
Apply(o) ==
    /\ users' = o.self.users
    /\ messages' = o.self.messages
    /\ chat_input' = o.self.chat_input
    /\ tx' = o.tx
    /\ log' = log \o o.logs
    /\ attempts' = attempts \o o.tried

\* The same for the second session.
TwinApply(o) ==
    twin' = [self |-> o.self, tx |-> o.tx, log |-> twin.log \o o.logs,
             attempts |-> twin.attempts \o o.tried]

\* Activation: Chat::create with the channel WebsocketService::new() made.
CreateStep(closed) ==
    /\ component = "none"
    /\ LET o == create(context, NewChannel(closed))
       IN  IF "panic" \in DOMAIN o
           THEN /\ component' = "panicked"
                /\ UNCHANGED <<users, messages, chat_input, tx, log, attempts>>
           ELSE /\ component' = "created"
                /\ Apply(o)
    /\ UNCHANGED <<context, last, nEvents, wire, codec>>

\* The first render binds chat_input to the <input>, which is empty.
RenderedStep ==
    /\ component = "created"
    /\ chat_input = None
    /\ chat_input' = Some(Raw(""))
    /\ UNCHANGED <<context, component, users, messages, tx, log, attempts,
                   last, nEvents, wire, codec>>

\* The user edits the input.
TypeInputStep(v) ==
    /\ component = "created"
    /\ IsSome(chat_input)
    /\ chat_input # Some(v)
    /\ chat_input' = Some(v)
    /\ UNCHANGED <<context, component, users, messages, tx, log, attempts,
                   last, nEvents, wire, codec>>

\* The EventBus delivers frame s: update(Msg::HandleMsg(s)).
HandleMsgStep(s, now) ==
    /\ component = "created"
    /\ nEvents < MaxEvents
    /\ LET o == update(Self, tx, MsgHandleMsg(s), now)
       IN  /\ Apply(o)
           /\ last' = [msg |-> MsgHandleMsg(s), now |-> now, before |-> Self,
                       ret |-> o.ret, logs |-> o.logs, tried |-> o.tried]
    /\ nEvents' = nEvents + 1
    /\ UNCHANGED <<context, component, wire, codec>>

\* The send button is clicked: update(Msg::SubmitMessage).
SubmitMessageStep(now) ==
    /\ component = "created"
    /\ nEvents < MaxEvents
    /\ LET o == update(Self, tx, MsgSubmitMessage, now)
       IN  /\ Apply(o)
           /\ last' = [msg |-> MsgSubmitMessage, now |-> now, before |-> Self,
                       ret |-> o.ret, logs |-> o.logs, tried |-> o.tried]
    /\ nEvents' = nEvents + 1
    /\ UNCHANGED <<context, component, wire, codec>>

\* The websocket writer takes the oldest queued text off the channel.
TransmitStep ==
    /\ component = "created"
    /\ tx.queue # <<>>
    /\ tx' = [tx EXCEPT !.queue = Tail(@)]
    /\ wire' = Append(wire, Head(tx.queue))
    /\ UNCHANGED <<context, component, users, messages, chat_input, log, attempts,
                   last, nEvents, codec>>

\* The connection ends: the channel is closed.
CloseStep ==
    /\ component = "created"
    /\ ~ tx.closed
    /\ tx' = [tx EXCEPT !.closed = TRUE]
    /\ UNCHANGED <<context, component, users, messages, chat_input, log, attempts,
                   last, nEvents, wire, codec>>

Create == (\E closed \in BOOLEAN : CreateStep(closed)) /\ UNCHANGED twin
Rendered == RenderedStep /\ UNCHANGED twin
TypeInput == (\E v \in Buffers : TypeInputStep(v)) /\ UNCHANGED twin
DispatchHandleMsg ==
    (\E s \in Frames, now \in Times : HandleMsgStep(s, now)) /\ UNCHANGED twin
DispatchSubmitMessage == (\E now \in Times : SubmitMessageStep(now)) /\ UNCHANGED twin
Transmit == TransmitStep /\ UNCHANGED twin
Close == CloseStep /\ UNCHANGED twin

Next ==
    \/ Create
    \/ Rendered
    \/ TypeInput
    \/ DispatchHandleMsg
    \/ DispatchSubmitMessage
    \/ Transmit
    \/ Close

Spec == Init /\ [][Next]_vars

-----------------------------------------------------------------------------
(* Two sessions side by side.  The first is the component above, created    *)
(* with a channel on which the registration send fails; the second, twin,   *)
(* is created with a channel that accepts it.  Both are given the same User *)
(* context, the same frames, the same input and the same submit signals;    *)
(* the second session's channel is emptied and closed on its own.           *)

mainVars == <<context, component, users, messages, chat_input, tx, log, attempts,
              last, nEvents, wire, codec>>

PairCreate ==
    /\ CreateStep(TRUE)
    /\ LET o == create(context, NewChannel(FALSE))
       IN  twin' = IF "panic" \in DOMAIN o THEN twin
                   ELSE [self |-> o.self, tx |-> o.tx, log |-> o.logs,
                         attempts |-> o.tried]

PairRendered ==
    /\ RenderedStep
    /\ twin' = [twin EXCEPT !.self.chat_input = Some(Raw(""))]

PairTypeInput ==
    \E v \in Buffers :
        /\ TypeInputStep(v)
        /\ twin' = [twin EXCEPT !.self.chat_input = Some(v)]

PairHandleMsg ==
    \E s \in Frames, now \in Times :
        /\ HandleMsgStep(s, now)
        /\ TwinApply(update(twin.self, twin.tx, MsgHandleMsg(s), now))

PairSubmitMessage ==
    \E now \in Times :
        /\ SubmitMessageStep(now)
        /\ TwinApply(update(twin.self, twin.tx, MsgSubmitMessage, now))

TwinTransmit ==
    /\ component = "created"
    /\ twin.tx.queue # <<>>
    /\ twin' = [twin EXCEPT !.tx.queue = Tail(@)]
    /\ UNCHANGED mainVars

TwinClose ==
    /\ component = "created"
    /\ ~ twin.tx.closed
    /\ twin' = [twin EXCEPT !.tx.closed = TRUE]
    /\ UNCHANGED mainVars

PairNext ==
    \/ PairCreate
    \/ PairRendered
    \/ PairTypeInput
    \/ PairHandleMsg
    \/ PairSubmitMessage
    \/ TwinTransmit
    \/ TwinClose

PairSpec == Init /\ [][PairNext]_vars

-----------------------------------------------------------------------------
(* Vocabulary of the properties *)

\* What the frames of Frames are, stated independently of the codec.
ValidMessages == {MessageM1, MessageM2}
MalformedMessages == {MessageNotJson, MessageNoFrom}
NotEnvelopes == {NotJson, NoMessageType, UnknownKind}
UsersEnvelopes == {UsersAB, UsersAbsent, UsersNull, UsersWithText}

\* The ChatMessage a valid Message envelope carries.
EntryM1 == [from |-> Raw("alice"), message |-> Raw("hi"), timestamp |-> Some(Raw("10:00"))]
EntryM2 == [from |-> Raw("bob"), message |-> Raw("yo"), timestamp |-> None]
EntryOf(s) == IF s = MessageM1 THEN EntryM1 ELSE EntryM2

\* The username list a Users envelope carries.
NamesOf(s) ==
    CASE s = UsersAB       -> <<Alice, Bob>>
      [] s = UsersWithText -> <<Bob, Bob>>
      [] OTHER             -> <<>>

\* The profiles derived from a username list.
RosterOf(names) == [i \in DOMAIN names |-> UserProfile(names[i])]

\* l records the delivery of one of the frames of S.
Handled(l, S) == l.msg.type = "HandleMsg" /\ l.msg.s \in S

\* l records a submit signal.
Submitted(l) == l.msg.type = "SubmitMessage"

\* This step is a call of update.
Dispatched == nEvents' = nEvents + 1

\* Sequence t is s with exactly n elements appended.
Extends(t, s, n) == Len(t) = Len(s) + n /\ SubSeq(t, 1, Len(s)) = s

-----------------------------------------------------------------------------
(* C1..C5: ingestion *)

\* C1: MessageLog is append-only and order-preserving: every step leaves
\* messages as it was or appends exactly one entry at its end, and the delivery
\* of a valid Message envelope appends that envelope's ChatMessage, so that M1
\* then M2 ends the log with [M1, M2] and the same message twice gives two
\* entries.
C1_AppendOnly ==
    [][ /\ (messages' = messages \/ Extends(messages', messages, 1))
        /\ (Dispatched /\ Handled(last', ValidMessages)
              => messages' = Append(messages, EntryOf(last'.msg.s))) ]_vars

\* M1, then M2, then M2 again were delivered: the log holds them in that order.
C1_Witness == messages = <<EntryM1, EntryM2, EntryM2>>

\* C2: a Message envelope whose text does not decode into a ChatMessage logs
\* an error and changes neither messages nor users, the component lives on,
\* and a valid Message envelope delivered next is appended.
C2_MalformedMessageDropped ==
    [][ /\ (Dispatched /\ Handled(last', MalformedMessages)
              => /\ messages' = messages
                 /\ users' = users
                 /\ log' = Append(log, Error("Error parsing message data"))
                 /\ component' = "created")
        /\ (Dispatched /\ Handled(last, MalformedMessages)
                       /\ Handled(last', ValidMessages)
              => messages' = Append(messages, EntryOf(last'.msg.s))) ]_vars

\* Two frames were delivered: a malformed Message envelope, which logged the
\* error and left the log empty, then a valid one, which was appended.
C2_Witness ==
    /\ nEvents = 2
    /\ Handled(last, ValidMessages)
    /\ last.before.messages = <<>>
    /\ messages = <<EntryOf(last.msg.s)>>
    /\ Len(log) >= 2
    /\ log[Len(log) - 1] = Error("Error parsing message data")

\* C3: a frame that is no valid envelope (not JSON, no messageType, unknown
\* messageType) logs a decode error and changes nothing else: users, messages,
\* the input, the channel and the send attempts are as before, update returns
\* false, the component lives on, and a frame delivered next is processed.
C3_InvalidEnvelopeDropped ==
    [][ /\ (Dispatched /\ Handled(last', NotEnvelopes)
              => /\ users' = users
                 /\ messages' = messages
                 /\ chat_input' = chat_input
                 /\ tx' = tx
                 /\ attempts' = attempts
                 /\ log' = Append(log, Error("Error parsing websocket message"))
                 /\ last'.ret = FALSE
                 /\ component' = "created")
        /\ (Dispatched /\ Handled(last, NotEnvelopes) /\ Handled(last', ValidMessages)
              => messages' = Append(messages, EntryOf(last'.msg.s)))
        /\ (Dispatched /\ Handled(last, NotEnvelopes) /\ Handled(last', UsersEnvelopes)
              => users' = RosterOf(NamesOf(last'.msg.s))) ]_vars

\* An unknown messageType was delivered to a component holding a roster and a
\* message: both are as they were and the error is logged.
C3_Witness ==
    /\ Handled(last, {UnknownKind})
    /\ last.before.users # <<>>
    /\ last.before.messages # <<>>
    /\ users = last.before.users
    /\ messages = last.before.messages
    /\ log[Len(log)] = Error("Error parsing websocket message")
    /\ last.ret = FALSE

\* C4: the delivery of a Users envelope makes users exactly the profiles of
\* its username list (same order, same length, repeated names kept), whatever
\* users held; users is empty at activation and no other step changes it, so
\* users always reflects the most recent Users envelope, or is empty.
C4_RosterIsLastSnapshot ==
    [][ /\ (Dispatched /\ Handled(last', UsersEnvelopes)
              => users' = RosterOf(NamesOf(last'.msg.s)))
        /\ (component = "none" => users' = <<>>)
        /\ (component # "none" /\ ~ (Dispatched /\ Handled(last', UsersEnvelopes))
              => users' = users) ]_vars

\* A roster [alice, bob] was replaced by the list [bob, bob].
C4_Witness ==
    /\ Handled(last, {UsersWithText})
    /\ last.before.users = <<UserProfile(Alice), UserProfile(Bob)>>
    /\ users = <<UserProfile(Bob), UserProfile(Bob)>>

\* C5: only the delivery of a Users envelope changes users: activation, the
\* delivery of any other frame, a submit and the environment's steps leave it
\* as it was.
C5_OnlyUsersEnvelopeChangesRoster ==
    [][ users' # users => Dispatched /\ Handled(last', UsersEnvelopes) ]_vars

\* A non-empty roster has survived a frame that is no envelope and a submit of
\* a non-empty buffer.
C5_Witness ==
    /\ users = <<UserProfile(Alice), UserProfile(Bob)>>
    /\ nEvents = 3
    /\ Len(log) >= 2
    /\ log[Len(log) - 1] = Error("Error parsing websocket message")
    /\ Submitted(last)
    /\ last.before.chat_input = Some(Raw("hello"))
    /\ last.before.users = users

-----------------------------------------------------------------------------
(* C6..C9: composition and registration *)

\* A buffer that is empty after trimming.
IsBlank(t) == t \in {Raw(""), Raw(" ")}

\* This step is a submit signal that finds the buffer non-empty.
SubmitsNonEmpty ==
    Dispatched /\ Submitted(last') /\ IsSome(chat_input) /\ ~ is_empty(chat_input.some)

\* The envelope a sent text decodes to.
EnvelopeOf(text) == from_str_WebSocketMessage(text)

\* C6: a submit signal whose buffer is empty or only whitespace makes no send
\* attempt, puts nothing on the channel and leaves messages as it was.
C6_BlankSubmitSendsNothing ==
    [][ Dispatched /\ Submitted(last') /\ IsSome(chat_input) /\ IsBlank(chat_input.some)
          => attempts' = attempts /\ tx' = tx /\ messages' = messages ]_vars

\* C7: after a submit signal with a non-empty buffer the input is empty,
\* whether the send succeeded or failed.
C7_SubmitClearsBuffer ==
    [][ SubmitsNonEmpty => chat_input' = Some(Raw("")) ]_vars

\* "hello" was submitted, the send failed, and the input is empty.
C7_Witness ==
    /\ Submitted(last)
    /\ last.before.chat_input = Some(Raw("hello"))
    /\ Len(attempts) >= 2
    /\ ~ attempts[Len(attempts)].ok
    /\ log[Len(log)] = Error("Error sending to channel")
    /\ chat_input = Some(Raw(""))

\* C8: a submit signal with a non-empty buffer makes exactly one send attempt;
\* the text attempted is an envelope of kind Message with no payload list whose
\* text is the JSON object of exactly message (the buffer as it was) and
\* timestamp (the non-empty time string captured), with no from field.
C8_OneMessageEnvelopeAttempted ==
    [][ SubmitsNonEmpty
          => /\ Extends(attempts', attempts, 1)
             /\ LET e == EnvelopeOf(attempts'[Len(attempts')].text)
                IN  /\ IsOk(e)
                    /\ e.ok.message_type = "Message"
                    /\ e.ok.data_array = None
                    /\ IsSome(e.ok.data)
                    /\ ParseJson(e.ok.data.some)
                         = Ok(JObj([message |-> JStr(chat_input.some),
                                    timestamp |-> JStr(last'.now)]))
                    /\ ~ is_empty(last'.now) ]_vars

\* "hello" was submitted and sent: the second send attempt, after the
\* registration, is the message envelope as it goes over the wire.
C8_Witness ==
    /\ Submitted(last)
    /\ last.before.chat_input = Some(Raw("hello"))
    /\ Len(attempts) = 2
    /\ attempts[2].ok
    /\ attempts[2].text =
         Doc(JObj([messageType |-> Str("message"), dataArray |-> JNull,
                   data |-> JStr(Doc(JObj([message |-> Str("hello"),
                                           timestamp |-> JStr(last.now)])))]))

\* C9: registration happens exactly once.  Activation makes exactly one send
\* attempt, a Register envelope whose text is the local username and which has
\* no payload list, before any frame or submit is processed; once created the
\* component stays created and no later attempt is a Register envelope, also
\* when the registration send failed; no event is processed before activation.
C9_RegisteredOnce ==
    [][ /\ (component = "none" /\ component' = "created"
              => /\ attempts = <<>>
                 /\ Len(attempts') = 1
                 /\ EnvelopeOf(attempts'[1].text)
                      = Ok([message_type |-> "Register", data_array |-> None,
                            data |-> context])
                 /\ nEvents' = 0
                 /\ last' = NoMsg)
        /\ (component = "created"
              => /\ component' = "created"
                 /\ Len(attempts') >= Len(attempts)
                 /\ \A i \in (Len(attempts) + 1)..Len(attempts') :
                        EnvelopeOf(attempts'[i].text).ok.message_type # "Register")
        /\ (component' # "created" => nEvents' = 0 /\ attempts' = <<>>) ]_vars

\* The registration send failed; a frame was then processed and two submits
\* made their attempts: the only Register envelope attempted is the first.
C9_Witness ==
    /\ component = "created"
    /\ Len(attempts) = 3
    /\ ~ attempts[1].ok
    /\ {i \in DOMAIN attempts :
          EnvelopeOf(attempts[i].text).ok.message_type = "Register"} = {1}
    /\ users # <<>>
    /\ nEvents = 3

-----------------------------------------------------------------------------
(* C10: registration does not gate ingestion or composition *)

\* The texts of the Message envelopes among the send attempts a, in order.
MessageAttempts(a) ==
    LET sel == SelectSeq(a, LAMBDA t :
                   EnvelopeOf(t.text).ok.message_type = "Message")
    IN  [i \in DOMAIN sel |-> sel[i].text]

\* C10: fed the same frames and submit signals, the session whose registration
\* send failed and the session whose registration send succeeded hold the same
\* users and the same messages and have attempted the same Message envelopes.
C10_RegistrationDoesNotGate ==
    component = "created"
      => /\ ~ attempts[1].ok
         /\ twin.attempts[1].ok
         /\ users = twin.self.users
         /\ messages = twin.self.messages
         /\ MessageAttempts(attempts) = MessageAttempts(twin.attempts)

\* Both sessions hold a roster and a message and have attempted the same
\* Message envelope, which only the registered session's channel accepted.
C10_Witness ==
    /\ component = "created"
    /\ users # <<>>
    /\ messages # <<>>
    /\ Len(attempts) = 2
    /\ ~ attempts[2].ok
    /\ Len(twin.attempts) = 2
    /\ twin.attempts[2].ok
    /\ twin.attempts[2].text = attempts[2].text

-----------------------------------------------------------------------------
(* C11..C12: kinds update does not handle, and send failures *)

\* The last call of update left users and messages as it found them, sent
\* nothing and reported no change.
NoEffect(l) ==
    /\ users = l.before.users
    /\ messages = l.before.messages
    /\ l.tried = <<>>
    /\ l.ret = FALSE

\* The error-level records among the log records rs.
Errors(rs) == SelectSeq(rs, LAMBDA r : r.level = "error")

\* C11 as stated: an inbound envelope whose kind is neither Users nor Message,
\* be it a Register envelope echoed back or an unknown kind, changes neither
\* users nor messages, sends nothing, reports no change and logs no error.
C11_OtherKindsSilentlyIgnored ==
    Handled(last, {RegisterEcho, UnknownKind})
      => NoEffect(last) /\ Errors(last.logs) = <<>>

\* C11, amended: a Register envelope echoed back changes neither users nor
\* messages, sends nothing, reports no change and logs nothing; a frame whose
\* messageType is not one of the three tags does not decode, which has the same
\* lack of effect except that the decode error is logged.
C11_RegisterEchoIgnored ==
    /\ Handled(last, {RegisterEcho})
         => NoEffect(last) /\ last.logs = <<>>
    /\ Handled(last, {UnknownKind})
         => /\ NoEffect(last)
            /\ last.logs = <<Error("Error parsing websocket message")>>

\* A Register envelope was delivered to a session that held a roster and a
\* message, and nothing was logged.
C11_Witness ==
    /\ Handled(last, {RegisterEcho})
    /\ users # <<>>
    /\ messages # <<>>
    /\ last.logs = <<>>

\* C12: every send attempt that fails is logged as an error: the Register
\* attempt of create, and the Message attempt of a submit.
C12_EverySendFailureLogged ==
    /\ (component = "created" /\ ~ attempts[1].ok => Errors(log) # <<>>)
    /\ (Submitted(last) /\ (\E i \in DOMAIN last.tried : ~ last.tried[i].ok)
          => Errors(last.logs) # <<>>)

-----------------------------------------------------------------------------
(* C13: no queueing and no retry of a failed send *)

\* The texts of the send attempts a that succeeded, in attempt order.
Accepted(a) ==
    LET sel == SelectSeq(a, LAMBDA t : t.ok)
    IN  [i \in DOMAIN sel |-> sel[i].text]

\* C13: the envelopes the channel has accepted, those the writer has already
\* taken (wire) followed by those still queued (tx.queue), are exactly the
\* attempts whose try_send succeeded, in attempt order: an envelope whose send
\* failed is never on the channel, also not after the channel has room again.
C13_AcceptedAreTheSuccessfulAttempts ==
    component = "created" => wire \o tx.queue = Accepted(attempts)

\* The registration was accepted, a first submit failed on the full channel,
\* the writer made room, and a second, different submit was accepted: the
\* channel has carried the first and the third attempt only.
C13_Witness ==
    /\ Len(attempts) = 3
    /\ attempts[1].ok /\ ~ attempts[2].ok /\ attempts[3].ok
    /\ attempts[2].text # attempts[3].text
    /\ ~ tx.closed
    /\ wire \o tx.queue = <<attempts[1].text, attempts[3].text>>

-----------------------------------------------------------------------------
(* C14: roster replacement is idempotent *)

\* C14: when a Users envelope is delivered and the same envelope is the next
\* event delivered, the second delivery leaves users exactly as the first one
\* made it, whatever users held before the first: same entries in the same
\* order, as many as the envelope lists.
C14_RosterReplacementIdempotent ==
    [][ Dispatched /\ Handled(last, UsersEnvelopes) /\ last'.msg = last.msg
          => /\ users' = users
             /\ Len(users') = Len(NamesOf(last.msg.s)) ]_vars

\* After a first roster of two other names, the envelope listing bob twice
\* was delivered twice in a row: the roster is those two entries, not four.
C14_Witness ==
    /\ nEvents = 3
    /\ Handled(last, {UsersWithText})
    /\ last.before.users = RosterOf(<<Bob, Bob>>)
    /\ users = RosterOf(<<Bob, Bob>>)
    /\ Len(users) = 2

-----------------------------------------------------------------------------
(* C15: the wire codec round trip *)

\* The username lists and texts an envelope may carry.
Payloads == {None, Some(<<>>), Some(<<Alice>>), Some(<<Alice, Bob>>),
             Some(<<Bob, Bob>>)}
Texts == {None, Some(Raw("")), Some(Alice), Some(M1Text), Some(Raw("garbage"))}

\* The values of struct WebSocketMessage.
Envelopes ==
    [message_type : DOMAIN MsgTypes, data_array : Payloads, data : Texts]

\* An envelope e is picked; nothing else of the component is running.
CodecInit ==
    /\ context = None
    /\ component = "none"
    /\ users = <<>>
    /\ messages = <<>>
    /\ chat_input = None
    /\ tx = NewChannel(FALSE)
    /\ log = <<>>
    /\ attempts = <<>>
    /\ last = NoMsg
    /\ nEvents = 0
    /\ wire = <<>>
    /\ twin = None
    /\ codec \in [stage : {"new"}, e : Envelopes]

\* serde_json::to_string(&e)
Encode ==
    /\ codec.stage = "new"
    /\ codec' = [stage |-> "encoded", e |-> codec.e,
                 text |-> to_string_WebSocketMessage(codec.e)]
    /\ UNCHANGED <<context, component, users, messages, chat_input, tx, log,
                   attempts, last, nEvents, wire, twin>>

\* serde_json::from_str::<WebSocketMessage>(&text)
Decode ==
    /\ codec.stage = "encoded"
    /\ codec' = [stage |-> "decoded", e |-> codec.e, text |-> codec.text,
                 got |-> from_str_WebSocketMessage(codec.text)]
    /\ UNCHANGED <<context, component, users, messages, chat_input, tx, log,
                   attempts, last, nEvents, wire, twin>>

CodecNext ==
    \/ Encode
    \/ Decode

CodecSpec == CodecInit /\ [][CodecNext]_vars

\* The wire form of a kind, of a list and of a text, written out.
WireTag(k) ==
    CASE k = "Users"    -> JStr(Raw("users"))
      [] k = "Register" -> JStr(Raw("register"))
      [] k = "Message"  -> JStr(Raw("message"))
WireList(p) ==
    IF p = None THEN JNull ELSE JArr([i \in DOMAIN p.some |-> JStr(p.some[i])])
WireText(t) == IF t = None THEN JNull ELSE JStr(t.some)

\* C15: every envelope e encodes to the JSON object whose fields are
\* messageType, dataArray and data, with the kind as its lowercase tag and null
\* for an absent list or text, and decoding that text succeeds and yields e.
C15_CodecRoundTrip ==
    /\ codec.stage \in {"encoded", "decoded"}
         => codec.text = Doc(JObj([messageType |-> WireTag(codec.e.message_type),
                                   dataArray   |-> WireList(codec.e.data_array),
                                   data        |-> WireText(codec.e.data)]))
    /\ codec.stage = "decoded" => codec.got = Ok(codec.e)

\* A Register envelope with a list of two names and no text went through the
\* codec and came back as it was.
C15_Witness ==
    /\ codec.stage = "decoded"
    /\ codec.e = [message_type |-> "Register", data_array |-> Some(<<Alice, Bob>>),
                  data |-> None]
    /\ codec.text = Doc(JObj([messageType |-> JStr(Raw("register")),
                              dataArray   |-> JArr(<<JStr(Alice), JStr(Bob)>>),
                              data        |-> JNull]))
    /\ codec.got = Ok(codec.e)

-----------------------------------------------------------------------------
(* C16..C17: which field of an envelope is read *)

\* The Users envelopes that carry no list: dataArray missing, dataArray null.
UsersWithoutList == {UsersAbsent, UsersNull}

\* C16: a Users envelope whose dataArray is null or missing empties users,
\* whatever it held, logs nothing and reports a change; messages are left alone.
C16_AbsentListEmptiesRoster ==
    Handled(last, UsersWithoutList)
      => /\ users = <<>>
         /\ messages = last.before.messages
         /\ last.logs = <<>>
         /\ last.ret = TRUE

\* A Users envelope with no dataArray field reached a session whose roster
\* held entries, and emptied it.
C16_Witness ==
    /\ Handled(last, {UsersAbsent})
    /\ last.before.users # <<>>
    /\ users = <<>>
    /\ last.ret = TRUE

\* C17: a Users envelope that also carries a text, here one that decodes into
\* a ChatMessage, sets users from its list and leaves messages alone; a Message
\* envelope that also carries a list appends its ChatMessage and leaves users
\* alone.
C17_KindDecidesField ==
    /\ Handled(last, {UsersWithText})
         => /\ users = RosterOf(<<Bob, Bob>>)
            /\ messages = last.before.messages
    /\ Handled(last, {MessageM2})
         => /\ messages = Append(last.before.messages, EntryM2)
            /\ users = last.before.users

\* The Users envelope with a text was delivered, then the Message envelope
\* with a list: the roster is the former's list and the log the latter's entry.
C17_Witness ==
    /\ nEvents = 2
    /\ Handled(last, {MessageM2})
    /\ users = RosterOf(<<Bob, Bob>>)
    /\ messages = <<EntryM2>>

-----------------------------------------------------------------------------
(* C18..C20: change notifications and no-ops *)

\* C18: a call of update that changed users or messages returned true; the
\* delivery of a Users envelope or of a Message envelope that decodes returns
\* true; the delivery of a frame that is not an envelope, or of a Message
\* envelope whose text does not decode, returns false.
C18_MutationIsNotified ==
    /\ (last # NoMsg /\ (users # last.before.users \/ messages # last.before.messages)
          => last.ret = TRUE)
    /\ (Handled(last, UsersEnvelopes \cup ValidMessages) => last.ret = TRUE)
    /\ (Handled(last, NotEnvelopes \cup MalformedMessages) => last.ret = FALSE)

\* A valid Message envelope was appended to a log that already held an entry,
\* and the call returned true.
C18_Witness ==
    /\ Handled(last, ValidMessages)
    /\ last.before.messages # <<>>
    /\ messages # last.before.messages
    /\ last.ret = TRUE

\* C19: a submit signal, whatever the buffer holds and whether or not the
\* send succeeds, leaves messages and users as they were and returns false;
\* no entry of messages ever carries a text taken from the input buffer:
\* every entry is the ChatMessage of an inbound Message envelope.
C19_SubmitDoesNotEcho ==
    /\ (Submitted(last)
          => /\ messages = last.before.messages
             /\ users = last.before.users
             /\ last.ret = FALSE)
    /\ \A i \in DOMAIN messages :
          /\ messages[i] \in {EntryM1, EntryM2}
          /\ messages[i].message \notin Buffers

\* A non-empty buffer was submitted and its send attempted in a session that
\* holds a message and a roster: both are as before the submit.
C19_Witness ==
    /\ Submitted(last)
    /\ Len(last.tried) = 1
    /\ messages # <<>>
    /\ users # <<>>
    /\ messages = last.before.messages
    /\ last.ret = FALSE

\* The Message envelopes that carry no text: data null, data missing.
MessagesWithoutText == {MessageNoText, MessageNoData}

\* C20: a Message envelope whose data is null or missing leaves messages and
\* users as they were, sends nothing, returns false and logs nothing, whereas
\* one whose text does not decode logs an error.
C20_AbsentTextIsNoOp ==
    /\ (Handled(last, MessagesWithoutText)
          => NoEffect(last) /\ last.logs = <<>>)
    /\ (Handled(last, MalformedMessages)
          => Errors(last.logs) = <<Error("Error parsing message data")>>)

\* A Message envelope with no data field reached a session that holds a
\* roster and a message: nothing was logged.
C20_Witness ==
    /\ Handled(last, {MessageNoData})
    /\ users # <<>>
    /\ messages # <<>>
    /\ last.logs = <<>>
    /\ last.ret = FALSE

=============================================================================
